---------------------------- MODULE Spec2Model ----------------------------
(***************************************************************************)
(* Model of the xy-pad release tooling: scripts/release.py (SemVer,        *)
(* pending-note aggregation, descriptor stamping, the prepare command) and *)
(* scripts/reapack_publish.py (the @provides scanner, the sync command).   *)
(*                                                                         *)
(* A text is a sequence of chunks.  A chunk is a short string that stands  *)
(* for itself ("--", "@", "provides", ">", "\n", "XY_Pad", "/", ...); the  *)
(* chunk alphabets used below are prefix-free, so two texts are equal as   *)
(* Python strings exactly when they are equal as chunk sequences.          *)
(***************************************************************************)
EXTENDS Integers, Sequences, FiniteSets, TLC

VARIABLES
    pc,      \* position of the running command or function
    args,    \* the arguments of the call under way
    fs,      \* the files the command reads and writes
    local,   \* the local variables of the running function
    result,  \* what the call returned or raised
    history  \* the invocations so far: their number and the one just ended

vars == <<pc, args, fs, local, result, history>>

(***************************************************************************)
(* Bounds of the model.                                                    *)
(***************************************************************************)
MaxVersionLen == 7
MaxTemplateLen == 4
MaxPendingFiles == 4
MaxRuns == 2
MaxDocLines == 4
MaxSyncLines == 3

(***************************************************************************)
(* Generic text helpers: str.strip, str.lstrip, str.rstrip, str.split.     *)
(***************************************************************************)
Whitespace == {" ", "\t", "\n"}

SeqsUpTo(S, n) == UNION {[1..k -> S] : k \in 0..n}

Range(s) == {s[i] : i \in 1..Len(s)}

\* str.lstrip(chars): drop every leading chunk that is in chars.
RECURSIVE LStrip(_, _)
LStrip(s, chars) ==
    IF s # <<>> /\ Head(s) \in chars THEN LStrip(Tail(s), chars) ELSE s

\* str.rstrip(chars): drop every trailing chunk that is in chars.
RECURSIVE RStrip(_, _)
RStrip(s, chars) ==
    IF s # <<>> /\ s[Len(s)] \in chars
    THEN RStrip(SubSeq(s, 1, Len(s) - 1), chars)
    ELSE s

\* str.strip(): surrounding whitespace removed.
Strip(s) == LStrip(RStrip(s, Whitespace), Whitespace)

\* Index of the first occurrence of chunk c in s at or after i, 0 when none.
RECURSIVE FindFrom(_, _, _)
FindFrom(s, c, i) ==
    IF i > Len(s) THEN 0
    ELSE IF s[i] = c THEN i
    ELSE FindFrom(s, c, i + 1)

Find(s, c) == FindFrom(s, c, 1)

\* str.split(sep): the pieces between the occurrences of the chunk sep.
RECURSIVE SplitOn(_, _)
SplitOn(s, sep) ==
    LET k == Find(s, sep)
    IN  IF k = 0 THEN <<s>>
        ELSE <<SubSeq(s, 1, k - 1)>> \o SplitOn(SubSeq(s, k + 1, Len(s)), sep)

(***************************************************************************)
(* SemVer (release.py).                                                    *)
(***************************************************************************)
Digits == {"0", "1", "2", "3", "4", "5", "6", "7", "8", "9"}

DigitValue(c) ==
    CASE c = "0" -> 0 [] c = "1" -> 1 [] c = "2" -> 2 [] c = "3" -> 3
      [] c = "4" -> 4 [] c = "5" -> 5 [] c = "6" -> 6 [] c = "7" -> 7
      [] c = "8" -> 8 [] c = "9" -> 9

DigitChar(d) == <<"0", "1", "2", "3", "4", "5", "6", "7", "8", "9">>[d + 1]

\* int(text) of a digit string.
RECURSIVE ToInt(_)
ToInt(s) ==
    IF s = <<>> THEN 0
    ELSE 10 * ToInt(SubSeq(s, 1, Len(s) - 1)) + DigitValue(s[Len(s)])

\* str(n) of a non-negative integer.
RECURSIVE IntToStr(_)
IntToStr(n) ==
    IF n < 10 THEN <<DigitChar(n)>>
    ELSE IntToStr(n \div 10) \o <<DigitChar(n % 10)>>

\* \d* tried at position i: the position after the longest digit run.
RECURSIVE DigitRunEnd(_, _)
DigitRunEnd(s, i) ==
    IF i <= Len(s) /\ s[i] \in Digits THEN DigitRunEnd(s, i + 1) ELSE i

\* The group (0|[1-9]\d*) tried at position i: the position after it when what
\* follows can still match, 0 when the group does not match.  What follows is a
\* literal "." or the end, so after the alternative "0" only that position can
\* succeed, and after [1-9] only the longest digit run can.
NumGroupEnd(s, i) ==
    IF i > Len(s) THEN 0
    ELSE IF s[i] = "0" THEN i + 1
    ELSE IF s[i] \in Digits THEN DigitRunEnd(s, i + 1)
    ELSE 0

\* SEMVER_RE.match(value): the three groups, or matched = FALSE.
SEMVER_RE(value) ==
    LET e1 == NumGroupEnd(value, 1)
        d1 == e1 # 0 /\ e1 <= Len(value) /\ value[e1] = "."
        e2 == IF d1 THEN NumGroupEnd(value, e1 + 1) ELSE 0
        d2 == e2 # 0 /\ e2 <= Len(value) /\ value[e2] = "."
        e3 == IF d2 THEN NumGroupEnd(value, e2 + 1) ELSE 0
    IN  IF e3 # 0 /\ e3 = Len(value) + 1
        THEN [matched |-> TRUE,
              major |-> SubSeq(value, 1, e1 - 1),
              minor |-> SubSeq(value, e1 + 1, e2 - 1),
              patch |-> SubSeq(value, e2 + 1, e3 - 1)]
        ELSE [matched |-> FALSE]

SemVer(x, y, z) == [major |-> x, minor |-> y, patch |-> z]

Returned(v) == [raised |-> "none", value |-> v]
Raised(e) == [raised |-> e]

InvalidVersionFormat == "ReleaseError: Invalid version (expected x.y.z)"
UnknownBumpLevel == "ReleaseError: Unknown bump level"
NoPendingChanges == "ReleaseError: No pending release notes found."
EmptyCompiledNotes == "ReleaseError: compiled release notes are empty"
MissingChangelogTag == "ReleaseError: Template missing --@changelog"

\* value.strip().lstrip("v")
SemVerNormalize(value) == LStrip(Strip(value), {"v"})

\* SemVer.parse
SemVerParse(value) ==
    LET m == SEMVER_RE(SemVerNormalize(value))
    IN  IF ~m.matched THEN Raised(InvalidVersionFormat)
        ELSE Returned(SemVer(ToInt(m.major), ToInt(m.minor), ToInt(m.patch)))

\* SemVer.bump
SemVerBump(v, level) ==
    IF level = "major" THEN Returned(SemVer(v.major + 1, 0, 0))
    ELSE IF level = "minor" THEN Returned(SemVer(v.major, v.minor + 1, 0))
    ELSE IF level = "patch" THEN Returned(SemVer(v.major, v.minor, v.patch + 1))
    ELSE Raised(UnknownBumpLevel)

\* SemVer.__str__
SemVerStr(v) ==
    IntToStr(v.major) \o <<".">> \o IntToStr(v.minor) \o <<".">> \o IntToStr(v.patch)

(***************************************************************************)
(* Specification SpecSemVer: SemVer.parse applied to every short text over *)
(* VersionChars, and to str() of every small version.                      *)
(***************************************************************************)
VersionChars == {"0", "1", ".", "v", " ", "a"}

SmallNumbers == {0, 1, 2, 10, 12, 100}

NoFs == [unused |-> TRUE]
NoLocal == [unused |-> TRUE]
NoResult == [raised |-> "pending"]
NoPrev == [valid |-> FALSE]
NoHistory == [runs |-> 0, prev |-> NoPrev]

InitSemVer ==
    /\ fs = NoFs
    /\ local = NoLocal
    /\ result = NoResult
    /\ history = NoHistory
    /\ \/ /\ pc = "parse"
          /\ \E t \in SeqsUpTo(VersionChars, MaxVersionLen) :
                args = [value |-> t, from_str |-> FALSE]
       \/ /\ pc = "str"
          /\ \E x \in SmallNumbers, y \in SmallNumbers, z \in SmallNumbers :
                args = [value |-> <<>>, from_str |-> TRUE, version |-> SemVer(x, y, z)]

\* str(version): the canonical text, handed on to parse.
StrCall ==
    /\ pc = "str"
    /\ pc' = "parse"
    /\ args' = [args EXCEPT !.value = SemVerStr(args.version)]
    /\ UNCHANGED <<fs, local, result, history>>

\* SemVer.parse(value)
ParseCall ==
    /\ pc = "parse"
    /\ pc' = "parsed"
    /\ result' = SemVerParse(args.value)
    /\ UNCHANGED <<args, fs, local, history>>

NextSemVer == StrCall \/ ParseCall

SpecSemVer == InitSemVer /\ [][NextSemVer]_vars

\* The grammar of claim C8: surrounding whitespace stripped, then at most one
\* leading "v" dropped, then exactly three "."-separated segments, each "0" or a
\* digit string that does not start with "0".
C8_Stripped(text) ==
    LET t == Strip(text)
    IN  IF t # <<>> /\ Head(t) = "v" THEN Tail(t) ELSE t

C8_Segment(seg) ==
    /\ seg # <<>>
    /\ Range(seg) \subseteq Digits
    /\ seg = <<"0">> \/ seg[1] # "0"

C8_Segments(text) == SplitOn(C8_Stripped(text), ".")

C8_Accepted(text) ==
    /\ Len(C8_Segments(text)) = 3
    /\ \A k \in 1..3 : C8_Segment(C8_Segments(text)[k])

\* C8: SemVer.parse accepts a text exactly when it is in the grammar above, then
\* returns the three integers of its segments (so that parsing str(v) gives v
\* back), and raises InvalidVersionFormat for every other text.
C8_ParseAcceptsExactlyTheGrammar ==
    pc = "parsed" =>
        /\ IF C8_Accepted(args.value)
           THEN result = Returned(SemVer(ToInt(C8_Segments(args.value)[1]),
                                         ToInt(C8_Segments(args.value)[2]),
                                         ToInt(C8_Segments(args.value)[3])))
           ELSE result = Raised(InvalidVersionFormat)
        /\ args.from_str => result = Returned(args.version)


(***************************************************************************)
(* Pending notes (release.py).  A file name is the chunk sequence          *)
(* <<stem, ".<level>", ".md">>; a pending directory is a function from the *)
(* names of its files to their contents.                                   *)
(***************************************************************************)
\* Faulty variant: the levels compared as strings, as max() without its key does.
BUMP_PRIORITY_StringOrder(lvl) ==
    CASE lvl = "major" -> 0 [] lvl = "minor" -> 1 [] lvl = "patch" -> 2

BUMP_PRIORITY(lvl) == CASE lvl = "patch" -> 0 [] lvl = "minor" -> 1 [] lvl = "major" -> 2

BumpLevels == <<"patch", "minor", "major">>

\* str.lower() of a file name, chunk by chunk.
LowerChunk(c) ==
    CASE c = ".Patch" -> ".patch"
      [] c = ".Minor" -> ".minor"
      [] c = ".Major" -> ".major"
      [] c = "B" -> "b"
      [] OTHER -> c

Lower(name) == [i \in 1..Len(name) |-> LowerChunk(name[i])]

\* name.endswith(suffix)
EndsWith(name, suffix) ==
    /\ Len(name) >= Len(suffix)
    /\ SubSeq(name, Len(name) - Len(suffix) + 1, Len(name)) = suffix

\* The file names of the model in Python's string order (upper case sorts first).
NameOrder ==
    << <<"B", ".Major", ".md">>,
       <<"a", ".patch", ".md">>,
       <<"c", ".minor", ".md">>,
       <<"d", ".md">>,
       <<"e", ".patch", ".txt">>,
       <<"f", ".patch", ".md">>,
       <<"g", ".major", ".md">> >>

PendingNames == Range(NameOrder)

SortKey(name) == CHOOSE i \in 1..Len(NameOrder) : NameOrder[i] = name

\* sorted(names): the names of the set in increasing order.
RECURSIVE SortedFrom(_, _)
SortedFrom(names, i) ==
    IF i > Len(NameOrder) THEN <<>>
    ELSE (IF NameOrder[i] \in names THEN <<NameOrder[i]>> ELSE <<>>)
         \o SortedFrom(names, i + 1)

Sorted(names) == SortedFrom(names, 1)

\* f".{level}" as one chunk.
LevelSuffix(level) ==
    CASE level = "patch" -> ".patch" [] level = "minor" -> ".minor"
      [] level = "major" -> ".major"

\* The level whose suffix the lowered name ends with, tried patch, minor, major.
RECURSIVE SuffixLevel(_, _)
SuffixLevel(lower_name, k) ==
    IF k > Len(BumpLevels) THEN "none"
    ELSE IF EndsWith(lower_name, <<LevelSuffix(BumpLevels[k]), ".md">>)
         THEN BumpLevels[k]
    ELSE SuffixLevel(lower_name, k + 1)

\* A file is a record: its text when it exists.  A pending directory is a record:
\* the function from the names of its files to their texts when it exists.
File(text) == [exists |-> TRUE, text |-> text]
NoFile == [exists |-> FALSE]
Dir(files) == [exists |-> TRUE, files |-> files]
NoDir == [exists |-> FALSE]

\* _discover_pending: the (bump_level, file) pairs of the directory's *.md files
\* with a level suffix, in sorted order.
RECURSIVE DiscoverFrom(_)
DiscoverFrom(paths) ==
    IF paths = <<>> THEN <<>>
    ELSE LET bump_level == SuffixLevel(Lower(Head(paths)), 1)
         IN  (IF bump_level = "none" THEN <<>>
              ELSE << <<bump_level, Head(paths)>> >>)
             \o DiscoverFrom(Tail(paths))

DiscoverPending(pending_dir) ==
    IF ~pending_dir.exists THEN <<>>
    ELSE DiscoverFrom(Sorted({n \in DOMAIN pending_dir.files : EndsWith(n, <<".md">>)}))

\* max(levels, key=BUMP_PRIORITY): the first element of the largest priority.
RECURSIVE MaxByPriority(_, _)
MaxByPriority(best, rest) ==
    IF rest = <<>> THEN best
    ELSE IF BUMP_PRIORITY(Head(rest)[1]) > BUMP_PRIORITY(best)
         THEN MaxByPriority(Head(rest)[1], Tail(rest))
         ELSE MaxByPriority(best, Tail(rest))

\* _select_bump_level
SelectBumpLevel(pending) ==
    IF pending = <<>> THEN Raised(NoPendingChanges)
    ELSE Returned(MaxByPriority(Head(pending)[1], Tail(pending)))

Separator == <<"\n", "\n", "---", "\n", "\n">>

\* sep.join(sections)
RECURSIVE Join(_, _)
Join(sections, sep) ==
    IF sections = <<>> THEN <<>>
    ELSE IF Len(sections) = 1 THEN sections[1]
    ELSE sections[1] \o sep \o Join(Tail(sections), sep)

\* sorted(pending, key=name): a stable insertion of each pair by its name.
RECURSIVE InsertByName(_, _)
InsertByName(sorted, item) ==
    IF sorted = <<>> THEN <<item>>
    ELSE IF SortKey(item[2]) < SortKey(Head(sorted)[2])
         THEN <<item>> \o sorted
         ELSE <<Head(sorted)>> \o InsertByName(Tail(sorted), item)

RECURSIVE SortedByName(_)
SortedByName(pending) ==
    IF pending = <<>> THEN <<>>
    ELSE InsertByName(SortedByName(SubSeq(pending, 1, Len(pending) - 1)),
                      pending[Len(pending)])

\* The stripped, non-empty bodies of the pending files, in order.
RECURSIVE Sections(_, _)
Sections(pending, pending_dir) ==
    IF pending = <<>> THEN <<>>
    ELSE LET body == Strip(pending_dir.files[Head(pending)[2]])
         IN  (IF body = <<>> THEN <<>> ELSE <<body>>)
             \o Sections(Tail(pending), pending_dir)

\* _compile_release_notes
CompileReleaseNotes(pending, pending_dir) ==
    RStrip(Join(Sections(SortedByName(pending), pending_dir), Separator), Whitespace)
        \o <<"\n">>

(***************************************************************************)
(* Descriptor stamping (release.py).                                       *)
(***************************************************************************)
VersionTag == "--@version"
ChangelogTag == "--@changelog"
ChangelogPrefix == "--  "

RECURSIVE WhitespaceRunEnd(_, _)
WhitespaceRunEnd(s, i) ==
    IF i <= Len(s) /\ s[i] \in Whitespace THEN WhitespaceRunEnd(s, i + 1) ELSE i

SetMax(S) == CHOOSE m \in S : \A x \in S : x <= m

\* (?m)^--@version\s*$ tried at position i: the position after the match (the
\* longest whitespace run that ends at the end of the text or before a newline),
\* 0 when there is no match at i.
VersionMatchEnd(s, i) ==
    IF ~((i = 1 \/ s[i - 1] = "\n") /\ s[i] = VersionTag) THEN 0
    ELSE LET ends == {p \in (i + 1)..WhitespaceRunEnd(s, i + 1) :
                          p = Len(s) + 1 \/ s[p] = "\n"}
         IN  IF ends = {} THEN 0 ELSE SetMax(ends)

\* re.sub(r"(?m)^--@version\s*$", repl, template)
RECURSIVE SubVersionFrom(_, _, _)
SubVersionFrom(s, i, repl) ==
    IF i > Len(s) THEN <<>>
    ELSE LET e == VersionMatchEnd(s, i)
         IN  IF e # 0 THEN repl \o SubVersionFrom(s, e, repl)
             ELSE <<s[i]>> \o SubVersionFrom(s, i + 1, repl)

SubVersion(template, version) ==
    SubVersionFrom(template, 1, <<VersionTag, " ">> \o SemVerStr(version))

\* The changelog lines: every line of the notes behind the comment prefix.
ChangelogLines(release_notes_md) ==
    LET lines == SplitOn(RStrip(release_notes_md, {"\n"}), "\n")
    IN  [k \in 1..Len(lines) |->
            IF Strip(lines[k]) = <<>> THEN <<ChangelogPrefix>>
            ELSE <<ChangelogPrefix>> \o lines[k]]

\* Position of the first "--@changelog\n" in s at or after i, 0 when none.
RECURSIVE FindChangelogNewline(_, _)
FindChangelogNewline(s, i) ==
    IF i >= Len(s) THEN 0
    ELSE IF s[i] = ChangelogTag /\ s[i + 1] = "\n" THEN i
    ELSE FindChangelogNewline(s, i + 1)

\* out.replace("--@changelog\n", "--@changelog\n" + insertion, 1)
ReplaceChangelog(out, insertion) ==
    LET k == FindChangelogNewline(out, 1)
    IN  IF k = 0 THEN out
        ELSE SubSeq(out, 1, k + 1) \o insertion \o SubSeq(out, k + 2, Len(out))

FileNotFound == "FileNotFoundError"

\* _stamp_reapack_file: the text written to out_path, or what it raises.
StampReapackFile(template, version, release_notes_md) ==
    IF ~template.exists THEN Raised(FileNotFound)
    ELSE LET out == SubVersion(template.text, version)
         IN  IF ChangelogTag \notin Range(out) THEN Raised(MissingChangelogTag)
             ELSE Returned(ReplaceChangelog(out,
                      Join(ChangelogLines(release_notes_md), <<"\n">>) \o <<"\n">>))


(***************************************************************************)
(* Specification SpecSelect: _select_bump_level and _compile_release_notes *)
(* applied to the fragments discovered in every small pending directory,   *)
(* listed in every order.                                                  *)
(***************************************************************************)
BlankBody == <<" ", "\n">>
FixedBody == <<"Fixed X", "\n", "\n", "Added Y", "\n">>

\* Every directory holding at most n of the given names, each with one of the bodies.
DirsOf(names, bodies, n) ==
    {Dir(files) : files \in UNION {[S -> bodies] :
                        S \in {T \in SUBSET names : Cardinality(T) <= n}}}

\* Every ordering of a list.
Orderings(list) ==
    {[i \in 1..Len(list) |-> list[f[i]]] : f \in Permutations(1..Len(list))}

InitSelect ==
    /\ pc = "select"
    /\ \E d \in DirsOf(PendingNames, {BlankBody, FixedBody}, MaxPendingFiles) :
          /\ fs = [pending |-> d]
          /\ \E p \in Orderings(DiscoverPending(d)) : args = [pending |-> p]
    /\ local = NoLocal
    /\ result = NoResult
    /\ history = NoHistory

\* bump_level = _select_bump_level(pending)
SelectCall ==
    /\ pc = "select"
    /\ result' = SelectBumpLevel(args.pending)
    /\ pc' = IF result'.raised = "none" THEN "compile" ELSE "raised"
    /\ UNCHANGED <<args, fs, local, history>>

\* notes = _compile_release_notes(pending)
CompileCall ==
    /\ pc = "compile"
    /\ local' = [notes |-> CompileReleaseNotes(args.pending, fs.pending)]
    /\ pc' = "compiled"
    /\ UNCHANGED <<args, fs, result, history>>

NextSelect == SelectCall \/ CompileCall

SpecSelect == InitSelect /\ [][NextSelect]_vars

\* The severity rank of claim C2: patch < minor < major.
C2_Rank(level) == CASE level = "patch" -> 1 [] level = "minor" -> 2 [] level = "major" -> 3

\* The levels of all the fragments discovered in the directory, whatever their
\* bodies and whatever the order they are listed in.
C2_DiscoveredLevels == {f[1] : f \in Range(DiscoverPending(fs.pending))}

\* C2: for a non-empty set of discovered fragments _select_bump_level returns the
\* level of the highest rank over all of them, blank-bodied ones included, in
\* whatever order they are listed; for the empty set it raises NoPendingChanges.
C2_SelectsMaximumOverAllDiscovered ==
    pc \in {"compile", "compiled", "raised"} =>
        IF C2_DiscoveredLevels = {}
        THEN result = Raised(NoPendingChanges)
        ELSE /\ result.raised = "none"
             /\ result.value \in C2_DiscoveredLevels
             /\ \A l \in C2_DiscoveredLevels : C2_Rank(l) <= C2_Rank(result.value)

\* Three fragments listed with a patch fragment first; the only major one has a
\* blank body and is left out of the compiled notes, and major is selected.
C2_Witness ==
    /\ pc = "compiled"
    /\ Len(args.pending) = 3
    /\ args.pending[1][1] = "patch"
    /\ \E i \in 2..3 :
          /\ args.pending[i][1] = "major"
          /\ fs.pending.files[args.pending[i][2]] = BlankBody
          /\ \A j \in (1..3) \ {i} :
                /\ args.pending[j][1] # "major"
                /\ fs.pending.files[args.pending[j][2]] = FixedBody
    /\ local.notes = Strip(FixedBody) \o Separator \o FixedBody
    /\ result = Returned("major")

(***************************************************************************)
(* Specification SpecStamp: _stamp_reapack_file applied to every short     *)
(* template over TemplateChunks.                                           *)
(***************************************************************************)
TemplateChunks == {VersionTag, ChangelogTag, "\n", " ", "x"}

NotesTexts == {<<"Fixed X", "\n", "\n", "Added Y", "\n">>, <<"Z", "\n">>}

InitStamp ==
    /\ pc = "stamp"
    /\ \E t \in SeqsUpTo(TemplateChunks, MaxTemplateLen) :
          fs = [reapack_template |-> File(t), reapack_out |-> NoFile]
    /\ \E n \in NotesTexts :
          args = [version |-> SemVer(1, 4, 0), release_notes_md |-> n]
    /\ local = NoLocal
    /\ result = NoResult
    /\ history = NoHistory

\* _stamp_reapack_file(template_path, out_path, version, release_notes_md)
StampCall ==
    /\ pc = "stamp"
    /\ LET r == StampReapackFile(fs.reapack_template, args.version,
                                 args.release_notes_md)
       IN  /\ result' = IF r.raised = "none" THEN Returned("None") ELSE r
           /\ fs' = IF r.raised = "none"
                    THEN [fs EXCEPT !.reapack_out = File(r.value)]
                    ELSE fs
    /\ pc' = "stamped"
    /\ UNCHANGED <<args, local, history>>

NextStamp == StampCall

SpecStamp == InitStamp /\ [][NextStamp]_vars

\* Index of the first line of lines that is exactly the changelog tag, 0 when none.
C3_TagLine(lines) ==
    IF \E k \in 1..Len(lines) : lines[k] = <<ChangelogTag>>
    THEN CHOOSE k \in 1..Len(lines) :
            /\ lines[k] = <<ChangelogTag>>
            /\ \A j \in 1..(k - 1) : lines[j] # <<ChangelogTag>>
    ELSE 0

\* The lines claim C3 expects behind the tag: "--  " before every line of the notes.
C3_Block(notes) ==
    LET lines == SplitOn(RStrip(notes, {"\n"}), "\n")
    IN  [k \in 1..Len(lines) |->
            IF Strip(lines[k]) = <<>> THEN <<ChangelogPrefix>>
            ELSE <<ChangelogPrefix>> \o lines[k]]

\* C3: stamping raises MissingChangelogTag exactly when no line of the template
\* is the changelog tag; otherwise it succeeds and the written text has the
\* prefixed changelog lines right after its first changelog tag line.
C3_StampInsertsOrFails ==
    pc = "stamped" =>
        IF C3_TagLine(SplitOn(fs.reapack_template.text, "\n")) = 0
        THEN result = Raised(MissingChangelogTag)
        ELSE /\ result.raised = "none"
             /\ fs.reapack_out.exists
             /\ LET out == SplitOn(fs.reapack_out.text, "\n")
                    k == C3_TagLine(out)
                    block == C3_Block(args.release_notes_md)
                IN  /\ k # 0
                    /\ Len(out) >= k + Len(block)
                    /\ \A j \in 1..Len(block) : out[k + j] = block[j]


(***************************************************************************)
(* The prepare command (release.py, cmd_prepare under main).               *)
(*                                                                         *)
(* fs.current is the version file, fs.pending the pending directory,       *)
(* fs.changes the function from the version texts v for which a            *)
(* changes-<v>.md exists to its text, fs.reapack_template the descriptor   *)
(* template and fs.reapack_out the stamped descriptor.                     *)
(***************************************************************************)
DomainErrors ==
    {InvalidVersionFormat, NoPendingChanges, EmptyCompiledNotes, MissingChangelogTag}

\* Lines 136-147: read and parse the version, discover the fragments, select the
\* level, bump, compile the notes, name the changes file.  The locals, or what
\* is raised.
PrepareCompute(files) ==
    IF ~files.current.exists THEN Raised(FileNotFound)
    ELSE LET current == SemVerParse(Strip(files.current.text))
             pending == DiscoverPending(files.pending)
             bump_level == SelectBumpLevel(pending)
         IN  IF current.raised # "none" THEN current
             ELSE IF bump_level.raised # "none" THEN bump_level
             ELSE LET new_version == SemVerBump(current.value, bump_level.value)
                      notes == CompileReleaseNotes(pending, files.pending)
                  IN  IF new_version.raised # "none" THEN new_version
                      ELSE IF Strip(notes) = <<>> THEN Raised(EmptyCompiledNotes)
                      ELSE Returned([current |-> current.value,
                                     pending |-> pending,
                                     bump_level |-> bump_level.value,
                                     new_version |-> new_version.value,
                                     notes |-> notes,
                                     changes_file |-> SemVerStr(new_version.value)])

\* A function with one key set (a file written, replacing what the path held).
WriteKey(f, k, v) == [x \in DOMAIN f \cup {k} |-> IF x = k THEN v ELSE f[x]]

\* A function without one key (a file unlinked; no error when it is not there).
RemoveKey(f, k) == [x \in DOMAIN f \ {k} |-> f[x]]

\* main(["prepare", ...]) is started, with or without --dry-run.
Invoke ==
    /\ pc = "idle"
    /\ history.runs < MaxRuns
    /\ \E dry \in BOOLEAN : args' = [dry_run |-> dry]
    /\ local' = [fs0 |-> fs]
    /\ result' = NoResult
    /\ history' = [history EXCEPT !.runs = @ + 1]
    /\ pc' = "compute"
    /\ UNCHANGED fs

\* Faulty variant: the writes are made in a dry run too.
AfterCompute_IgnoringDryRun(dry_run) == "write_version"

\* Line 149: a dry run goes straight on to the report.
AfterCompute(dry_run) == IF dry_run THEN "report" ELSE "write_version"

\* Lines 136-149: validation and computation.
Compute ==
    /\ pc = "compute"
    /\ LET r == PrepareCompute(fs)
       IN  IF r.raised # "none"
           THEN /\ result' = r
                /\ pc' = "return"
                /\ UNCHANGED local
           ELSE /\ local' = [fs0 |-> local.fs0] @@ r.value
                /\ pc' = AfterCompute(args.dry_run)
                /\ UNCHANGED result
    /\ UNCHANGED <<args, fs, history>>

\* Line 150: _write_text(current_version_path, f"{new_version}\n")
WriteVersionFile ==
    /\ pc = "write_version"
    /\ fs' = [fs EXCEPT !.current = File(SemVerStr(local.new_version) \o <<"\n">>)]
    /\ pc' = "write_changes"
    /\ UNCHANGED <<args, local, result, history>>

\* Line 151: _write_text(changes_file, notes)
WriteChangesFile ==
    /\ pc = "write_changes"
    /\ fs' = [fs EXCEPT !.changes = WriteKey(@, local.changes_file, local.notes)]
    /\ pc' = "stamp"
    /\ UNCHANGED <<args, local, result, history>>

\* Lines 152-157: _stamp_reapack_file(...); what it raises ends the command.
Stamp ==
    /\ pc = "stamp"
    /\ LET r == StampReapackFile(fs.reapack_template, local.new_version, local.notes)
       IN  IF r.raised # "none"
           THEN /\ result' = r
                /\ pc' = "return"
                /\ UNCHANGED <<fs, local>>
           ELSE /\ fs' = [fs EXCEPT !.reapack_out = File(r.value)]
                /\ local' = [to_unlink |-> local.pending] @@ local
                /\ pc' = "unlink"
                /\ UNCHANGED result
    /\ UNCHANGED <<args, history>>

\* Lines 160-164: the next pending file is unlinked.
UnlinkNext ==
    /\ pc = "unlink"
    /\ local.to_unlink # <<>>
    /\ fs' = [fs EXCEPT !.pending.files = RemoveKey(@, Head(local.to_unlink)[2])]
    /\ local' = [local EXCEPT !.to_unlink = Tail(@)]
    /\ UNCHANGED <<pc, args, result, history>>

\* The loop of lines 160-164 is over.
UnlinkDone ==
    /\ pc = "unlink"
    /\ local.to_unlink = <<>>
    /\ pc' = "report"
    /\ UNCHANGED <<args, fs, local, result, history>>

\* Lines 166-178: the three values are printed and the command returns 0.
Report ==
    /\ pc = "report"
    /\ result' = Returned([bump_level |-> local.bump_level,
                           version |-> SemVerStr(local.new_version),
                           changes_file |-> local.changes_file])
    /\ pc' = "return"
    /\ UNCHANGED <<args, fs, local, history>>

\* main: 0 from the command, 2 for a ReleaseError, a traceback for anything else.
ExitCode(r) ==
    IF r.raised = "none" THEN 0
    ELSE IF r.raised \in DomainErrors \cup {UnknownBumpLevel} THEN 2
    ELSE 1

\* The process ends; the invocation is remembered as the previous one.
Exit ==
    /\ pc = "return"
    /\ history' = [history EXCEPT !.prev =
                      [valid |-> TRUE, dry_run |-> args.dry_run, result |-> result,
                       exit_code |-> ExitCode(result), fs0 |-> local.fs0]]
    /\ pc' = "idle"
    /\ UNCHANGED <<args, fs, local, result>>

(***************************************************************************)
(* Specification SpecPrepare: up to MaxRuns invocations of prepare, dry or *)
(* not, from every small repository state.                                 *)
(***************************************************************************)
CurrentFiles ==
    {File(<<"1", ".", "2", ".", "3", "\n">>),
     File(<<"v", "0", ".", "9", ".", "9">>),
     File(<<"1", ".", "0", "2", ".", "3", "\n">>),
     NoFile}

TemplateFiles ==
    {File(<<VersionTag, "\n", ChangelogTag, "\n", "x", "\n">>),
     File(<<VersionTag, "\n", "x", "\n">>),
     File(<<VersionTag, "\n", ChangelogTag>>),
     NoFile}

PrepareNames ==
    {<<"B", ".Major", ".md">>, <<"a", ".patch", ".md">>, <<"c", ".minor", ".md">>,
     <<"d", ".md">>}

OldChanges == <<"old", "\n">>

ChangesDirs ==
    {<<>>,
     <<"1", ".", "2", ".", "4">> :> OldChanges,
     <<"2", ".", "0", ".", "0">> :> OldChanges}

InitPrepare ==
    /\ pc = "idle"
    /\ args = [dry_run |-> FALSE]
    /\ \E c \in CurrentFiles, t \in TemplateFiles, ch \in ChangesDirs,
          p \in {NoDir} \cup DirsOf(PrepareNames, {BlankBody, FixedBody},
                                    Cardinality(PrepareNames)) :
          fs = [current |-> c, pending |-> p, changes |-> ch,
                reapack_template |-> t, reapack_out |-> NoFile]
    /\ local = NoLocal
    /\ result = NoResult
    /\ history = NoHistory

NextPrepare ==
    \/ Invoke
    \/ Compute
    \/ WriteVersionFile
    \/ WriteChangesFile
    \/ Stamp
    \/ UnlinkNext
    \/ UnlinkDone
    \/ Report
    \/ Exit

SpecPrepare == InitPrepare /\ [][NextPrepare]_vars

\* C4: the pending directory differs from what it was when the invocation began
\* only in an invocation that is not a dry run, and only once the version file,
\* the changes file and the stamped descriptor have all been written; an
\* invocation that is a dry run or that ends in a domain error leaves every
\* pending fragment in place.
C4_DeletionOnlyAfterAllWrites ==
    history.runs > 0 =>
        /\ fs.pending # local.fs0.pending =>
              /\ ~args.dry_run
              /\ pc \in {"unlink", "report", "return", "idle"}
              /\ fs.current = File(SemVerStr(local.new_version) \o <<"\n">>)
              /\ local.changes_file \in DOMAIN fs.changes
              /\ fs.changes[local.changes_file] = local.notes
              /\ fs.reapack_out =
                    File(StampReapackFile(fs.reapack_template, local.new_version,
                                          local.notes).value)
        /\ (pc \in {"return", "idle"} /\ (args.dry_run \/ result.raised \in DomainErrors))
              => fs.pending = local.fs0.pending

\* A real run that returned 0 after unlinking three fragments; the file without
\* a level suffix is still there.
C4_Witness ==
    /\ pc = "return"
    /\ ~args.dry_run
    /\ result.raised = "none"
    /\ Len(local.pending) = 3
    /\ DOMAIN local.fs0.pending.files = PrepareNames
    /\ DOMAIN fs.pending.files = {<<"d", ".md">>}

\* C5: when a real run ends in a domain error, a dry run on the same repository
\* state ends in that same error.
C5_DryRunRaisesWhatTheRealRunRaises ==
    (/\ pc = "return"
     /\ ~args.dry_run
     /\ result.raised \in DomainErrors
     /\ history.prev.valid
     /\ history.prev.dry_run
     /\ history.prev.fs0 = local.fs0)
        => history.prev.result = result

\* C6: a changes-<version>.md that exists is never written again, so it stays and
\* its text never changes.
C6_ChangesNeverOverwritten ==
    [][\A v \in DOMAIN fs.changes :
          v \in DOMAIN fs'.changes /\ fs'.changes[v] = fs.changes[v]]_vars


(***************************************************************************)
(* The @provides scanner (reapack_publish.py).  A line is a sequence of    *)
(* chunks: " " is whitespace, "--" the Lua comment prefix, "@" the         *)
(* directive sign, and "provides", "changelog", "main", "XY_Pad",          *)
(* "foo.lua", "Tools", "u", "http://", "https://" are chunks that begin    *)
(* with a word character.                                                  *)
(***************************************************************************)
WordStartChunks ==
    {"provides", "changelog", "main", "XY_Pad", "foo.lua", "Tools", "u",
     "http://", "https://"}

\* ^\s*--\s* tried on a line: the position after it, 0 when the line does not match.
CommentPrefixEnd(raw) ==
    LET a == WhitespaceRunEnd(raw, 1)
    IN  IF a <= Len(raw) /\ raw[a] = "--" THEN WhitespaceRunEnd(raw, a + 1) ELSE 0

\* DIRECTIVE_LINE_RE.match(raw): ^\s*--\s*@
DIRECTIVE_LINE_RE(raw) ==
    LET b == CommentPrefixEnd(raw)
    IN  b # 0 /\ b <= Len(raw) /\ raw[b] = "@"

\* PROVIDES_START_RE.match(raw): ^\s*--\s*@provides\b
PROVIDES_START_RE(raw) ==
    LET b == CommentPrefixEnd(raw)
    IN  /\ DIRECTIVE_LINE_RE(raw)
        /\ b + 1 <= Len(raw)
        /\ raw[b + 1] = "provides"
        /\ b + 2 <= Len(raw) => raw[b + 2] \notin WordStartChunks

\* PROVIDES_LINE_RE.match(raw): ^\s*--\s*(?P<body>.*)$, the body when it matches.
PROVIDES_LINE_RE(raw) ==
    LET b == CommentPrefixEnd(raw)
    IN  IF b = 0 THEN [matched |-> FALSE]
        ELSE [matched |-> TRUE, body |-> SubSeq(raw, b, Len(raw))]

\* str.split(): the whitespace-delimited words, each the chunks it is made of.
RECURSIVE Words(_)
Words(s) ==
    LET t == LStrip(s, Whitespace)
        e == IF \E i \in 1..Len(t) : t[i] \in Whitespace
             THEN CHOOSE i \in 1..Len(t) :
                     t[i] \in Whitespace /\ \A j \in 1..(i - 1) : t[j] \notin Whitespace
             ELSE Len(t) + 1
    IN  IF t = <<>> THEN <<>>
        ELSE <<SubSeq(t, 1, e - 1)>> \o Words(SubSeq(t, e, Len(t)))

ProvidesEntry(source, target, has_url) ==
    [source |-> source, target |-> target, has_url |-> has_url]

\* Lines 85-91: a leading [opts] group is dropped when it is closed.
StripOptions(body) ==
    IF body # <<>> /\ body[1] = "[" /\ Find(body, "]") # 0
    THEN Strip(SubSeq(body, Find(body, "]") + 1, Len(body)))
    ELSE Strip(body)

IndexError == "IndexError: list index out of range"

\* Lines 93-106 on the body of an entry line: the entries to append (one, or none
\* for a line passed over), or what is raised.
ParseEntry(body) ==
    LET has_url == "http://" \in Range(body) \/ "https://" \in Range(body)
    IN  IF ">" \in Range(body)
        THEN LET k == Find(body, ">")
                 left == Words(Strip(SubSeq(body, 1, k - 1)))
                 right == Words(Strip(SubSeq(body, k + 1, Len(body))))
             IN  IF left = <<>> \/ right = <<>> THEN Raised(IndexError)
                 ELSE Returned(<<ProvidesEntry(left[1], right[1], has_url)>>)
        ELSE LET parts == Words(body)
             IN  IF parts = <<>> THEN Returned(<<>>)
                 ELSE Returned(<<ProvidesEntry(parts[1], parts[1], has_url)>>)

\* Faulty variant: the directive line only leaves the block and the scan goes on.
AtNextDirective_LeavingBlock(state) == [state EXCEPT !.in_provides = FALSE]

\* Lines 73-74: a directive line other than @provides met inside the block.
AtNextDirective(state) == [state EXCEPT !.loop = "break"]

\* One iteration of the loop of lines 64-106 on the line raw: the flag, the
\* entries, and how the loop goes on ("next", "break" or what is raised).
ScanLine(in_provides, entries, raw) ==
    LET same == [in_provides |-> in_provides, entries |-> entries, loop |-> "next"]
    IN  IF PROVIDES_START_RE(raw) THEN [same EXCEPT !.in_provides = TRUE]
        ELSE IF ~in_provides THEN same
        ELSE IF DIRECTIVE_LINE_RE(raw)
             THEN AtNextDirective(same)
        ELSE LET match == PROVIDES_LINE_RE(raw)
             IN  IF ~match.matched THEN same
                 ELSE IF Strip(match.body) = <<>> THEN same
                 ELSE LET e == ParseEntry(StripOptions(Strip(match.body)))
                      IN  IF e.raised # "none" THEN [same EXCEPT !.loop = e.raised]
                          ELSE [same EXCEPT !.entries = entries \o e.value]

\* The loop from line i on.
RECURSIVE ScanFrom(_, _, _, _)
ScanFrom(lines, i, in_provides, entries) ==
    IF i > Len(lines) THEN Returned(entries)
    ELSE LET st == ScanLine(in_provides, entries, lines[i])
         IN  IF st.loop = "break" THEN Returned(st.entries)
             ELSE IF st.loop # "next" THEN Raised(st.loop)
             ELSE ScanFrom(lines, i + 1, st.in_provides, st.entries)

\* _parse_provides on the text of the descriptor.
ParseProvides(text) == ScanFrom(SplitOn(text, "\n"), 1, FALSE, <<>>)

(***************************************************************************)
(* Specification SpecParse: _parse_provides, one line of the loop per      *)
(* step, on every descriptor of at most MaxDocLines lines of ParseLines.   *)
(***************************************************************************)
OpenLine == <<"--", " ", "@", "provides">>
ChangelogLine == <<"--", "@", "changelog">>
PlainLine == <<"--", " ", "XY_Pad", "/", "foo.lua">>
MappingLine == <<"--", " ", "XY_Pad", "/", "foo.lua", " ", ">", " ", "Tools", "/">>
NoTargetLine == <<"--", " ", "XY_Pad", "/", "foo.lua", " ", ">">>
NoSourceLine == <<"--", " ", ">", " ", "Tools">>
OptionsOnlyLine == <<"--", " ", "[", "main", "]">>
BlankLine == <<"--">>

ParseLines ==
    {OpenLine, ChangelogLine, PlainLine, MappingLine, NoTargetLine, NoSourceLine,
     OptionsOnlyLine, BlankLine}

InitParse ==
    /\ pc = "scan"
    /\ \E doc \in SeqsUpTo(ParseLines, MaxDocLines) :
          /\ fs = [reapack_file |-> File(Join(doc, <<"\n">>))]
          /\ local = [lines |-> SplitOn(Join(doc, <<"\n">>), "\n"), i |-> 1,
                      in_provides |-> FALSE, entries |-> <<>>]
    /\ args = [reapack_file |-> <<"XY_Pad-ReaPack.lua">>]
    /\ result = NoResult
    /\ history = NoHistory

\* One iteration of the loop: the next line is scanned.
ScanStep ==
    /\ pc = "scan"
    /\ local.i <= Len(local.lines)
    /\ LET st == ScanLine(local.in_provides, local.entries, local.lines[local.i])
       IN  IF st.loop = "next"
           THEN /\ local' = [local EXCEPT !.i = @ + 1,
                                          !.in_provides = st.in_provides,
                                          !.entries = st.entries]
                /\ UNCHANGED <<pc, result>>
           ELSE /\ result' = IF st.loop = "break" THEN Returned(st.entries)
                             ELSE Raised(st.loop)
                /\ pc' = "returned"
                /\ UNCHANGED local
    /\ UNCHANGED <<args, fs, history>>

\* The lines are used up: return entries.
ScanEnd ==
    /\ pc = "scan"
    /\ local.i > Len(local.lines)
    /\ result' = Returned(local.entries)
    /\ pc' = "returned"
    /\ UNCHANGED <<args, fs, local, history>>

NextParse == ScanStep \/ ScanEnd

SpecParse == InitParse /\ [][NextParse]_vars

\* The least element of a non-empty set of numbers.
C1_Least(S) == CHOOSE m \in S : \A x \in S : m <= x

\* The index of the first @provides opening line, 0 when there is none.
C1_OpenIndex(lines) ==
    LET S == {i \in 1..Len(lines) : PROVIDES_START_RE(lines[i])}
    IN  IF S = {} THEN 0 ELSE C1_Least(S)

\* The index of the first directive line other than @provides after the opening
\* line, 0 when there is none (or no opening line).
C1_CloseIndex(lines) ==
    LET S == {k \in 1..Len(lines) :
                 /\ C1_OpenIndex(lines) # 0
                 /\ k > C1_OpenIndex(lines)
                 /\ DIRECTIVE_LINE_RE(lines[k])
                 /\ ~PROVIDES_START_RE(lines[k])}
    IN  IF S = {} THEN 0 ELSE C1_Least(S)

\* The content of a line of the block as claim C1 counts it: what follows the
\* comment prefix, the option group dropped; empty for a line that is no comment
\* line, that is a directive line, or that holds nothing else.
C1_Content(raw) ==
    IF PROVIDES_LINE_RE(raw).matched /\ ~DIRECTIVE_LINE_RE(raw)
    THEN StripOptions(Strip(PROVIDES_LINE_RE(raw).body))
    ELSE <<>>

C1_FirstToken(s) == IF Words(s) = <<>> THEN <<>> ELSE Words(s)[1]

\* The entry claim C1 gives a content: the first token on each side of the first
\* ">", or the first token as both source and target.
C1_Entry(content) ==
    LET url == "http://" \in Range(content) \/ "https://" \in Range(content)
        k == Find(content, ">")
    IN  IF k # 0
        THEN ProvidesEntry(C1_FirstToken(SubSeq(content, 1, k - 1)),
                           C1_FirstToken(SubSeq(content, k + 1, Len(content))), url)
        ELSE ProvidesEntry(C1_FirstToken(content), C1_FirstToken(content), url)

\* One entry per line of lines[i..k-1] with content, in order.
RECURSIVE C1_Entries(_, _, _)
C1_Entries(lines, i, k) ==
    IF i >= k THEN <<>>
    ELSE (IF C1_Content(lines[i]) = <<>> THEN <<>>
          ELSE <<C1_Entry(C1_Content(lines[i]))>>)
         \o C1_Entries(lines, i + 1, k)

C1_Expected(lines) ==
    IF C1_OpenIndex(lines) = 0 THEN <<>>
    ELSE C1_Entries(lines, C1_OpenIndex(lines) + 1,
                    IF C1_CloseIndex(lines) = 0 THEN Len(lines) + 1 ELSE C1_CloseIndex(lines))

\* C1: _parse_provides returns, for any descriptor, exactly one entry per line
\* with content between the @provides line and the next directive line (or the
\* end), in order, duplicates kept, nothing from the closing line on; the empty
\* sequence when there is no @provides line or the block is empty.
C1_OneEntryPerBlockLine ==
    pc = "returned" => result = Returned(C1_Expected(local.lines))

\* C9 as stated: a directive line other than @provides met inside the block only
\* clears the flag, and the scan goes on to the next line.
C9_DirectiveOnlyLeavesBlock ==
    [][(/\ pc = "scan"
        /\ local.i <= Len(local.lines)
        /\ local.in_provides
        /\ DIRECTIVE_LINE_RE(local.lines[local.i])
        /\ ~PROVIDES_START_RE(local.lines[local.i]))
       => (/\ pc' = "scan"
           /\ ~local'.in_provides
           /\ local'.i = local.i + 1)]_vars

\* C9 amended: the scan never goes past the first directive line other than
\* @provides that follows the opening line; the function returns there with the
\* entries collected so far and the flag still set, so whatever follows, a later
\* @provides line and its entry lines included, adds nothing.
C9_DirectiveEndsScan ==
    C1_CloseIndex(local.lines) # 0 =>
        /\ local.i <= C1_CloseIndex(local.lines)
        /\ (pc = "returned" /\ local.i = C1_CloseIndex(local.lines)) =>
              /\ local.in_provides
              /\ result = Returned(local.entries)
              /\ result = ParseProvides(
                    Join(SubSeq(local.lines, 1, C1_CloseIndex(local.lines) - 1), <<"\n">>))

\* An empty block closed by @changelog, then a second @provides line and an
\* entry line: the scan returned at line 2 with no entry.
C9_Witness ==
    /\ pc = "returned"
    /\ local.lines = <<OpenLine, ChangelogLine, OpenLine, PlainLine>>
    /\ local.i = 2
    /\ result = Returned(<<>>)

\* C10: the scan never aborts, and every entry it appends has a source and a
\* target that are not empty.
C10_SkipsOrAppendsNeverAborts ==
    /\ result.raised \in {"pending", "none"}
    /\ \A k \in 1..Len(local.entries) :
          local.entries[k].source # <<>> /\ local.entries[k].target # <<>>

(***************************************************************************)
(* cmd_sync (reapack_publish.py).  fs.repo maps the paths that exist under *)
(* repo_root to files, fs.fx is the FX directory of the reascripts         *)
(* checkout; history.copy_calls is the sequence of _copy_file calls, each  *)
(* with the index of the entry it was made for (0: the metapackage).       *)
(***************************************************************************)
ReaPackFileNotFound == "ReaPack file not found"
FxDirNotFound == "Expected reascripts FX directory not found"
ProvidesFileMissing == "Provides file missing"
CommandFailed == "Command failed"

MetapackageName == <<"XY_Pad-ReaPack.lua">>
ShippedPrefix == <<"XY_Pad", "/">>

StartsWith(s, prefix) ==
    Len(s) >= Len(prefix) /\ SubSeq(s, 1, Len(prefix)) = prefix

\* Path(p).name: what follows the last "/" once trailing ones are dropped.
PathName(p) ==
    LET q == RStrip(p, {"/"})
        S == {i \in 1..Len(q) : q[i] = "/"}
    IN  IF S = {} THEN q ELSE SubSeq(q, SetMax(S) + 1, Len(q))

\* Faulty variant: entries with a URL are not passed over.
SkipEntry_WithoutUrlCheck(entry) ==
    \/ entry.source = <<".">> \/ entry.target = <<".">>
    \/ ~StartsWith(entry.source, ShippedPrefix)

\* Lines 135-143: the entries the loop passes over.
SkipEntry(entry) ==
    \/ entry.source = <<".">> \/ entry.target = <<".">>
    \/ entry.has_url
    \/ ~StartsWith(entry.source, ShippedPrefix)

\* Lines 149-151: the destination relative to the FX directory.
DstRel(entry) ==
    IF EndsWith(entry.target, <<"/">>) THEN entry.target \o PathName(entry.source)
    ELSE entry.target

\* _copy_file(src, dst) with dst under the FX directory.
CopyFile(files, src, dst_rel) == (dst_rel :> files.repo[src]) @@ files.fx.files

UrlLine == <<"--", " ", "XY_Pad", "/", "foo.lua", " ", ">", " ", "https://", "u">>
DotLine == <<"--", " ", ".">>
DotTargetLine == <<"--", " ", "XY_Pad", "/", "foo.lua", " ", ">", " ", ".">>
OutsideLine == <<"--", " ", "Tools", "/", "foo.lua">>

SyncLines ==
    {PlainLine, MappingLine, UrlLine, DotLine, DotTargetLine, OutsideLine, NoTargetLine}

ShippedSource == <<"XY_Pad", "/", "foo.lua">>
ReaPackFileNames == {MetapackageName, <<"Other.lua">>}

\* Every descriptor whose first line opens the block and whose at most
\* MaxSyncLines other lines are of SyncLines, or no descriptor; the FX directory
\* empty or absent; the shipped source present or not.
InitSync ==
    /\ pc = "sync"
    /\ \E name \in ReaPackFileNames, run_index \in BOOLEAN :
          args = [reapack_file |-> name, run_index |-> run_index]
    /\ \E doc \in SeqsUpTo(SyncLines, MaxSyncLines), has_source \in BOOLEAN,
          fx \in {Dir(<<>>), NoDir} :
          LET descriptor == args.reapack_file :> File(Join(<<OpenLine>> \o doc, <<"\n">>))
              source == IF has_source THEN ShippedSource :> File(<<"lua">>) ELSE <<>>
          IN  fs \in {[repo |-> descriptor @@ source, fx |-> fx],
                      [repo |-> source, fx |-> fx]}
    /\ local = [entries |-> <<>>, k |-> 1, copied |-> <<>>]
    /\ result = NoResult
    /\ history = [copy_calls |-> <<>>]

\* Lines 120-126: the two existence checks.
SyncCheck ==
    /\ pc = "sync"
    /\ IF args.reapack_file \notin DOMAIN fs.repo
       THEN pc' = "done" /\ result' = Raised(ReaPackFileNotFound)
       ELSE IF ~fs.fx.exists
       THEN pc' = "done" /\ result' = Raised(FxDirNotFound)
       ELSE pc' = "copy_metapackage" /\ UNCHANGED result
    /\ UNCHANGED <<args, fs, local, history>>

\* Line 129: the descriptor is copied to FX/XY_Pad-ReaPack.lua.
CopyMetapackage ==
    /\ pc = "copy_metapackage"
    /\ fs' = [fs EXCEPT !.fx = Dir(CopyFile(fs, args.reapack_file, MetapackageName))]
    /\ history' = [history EXCEPT !.copy_calls =
                      Append(@, [entry |-> 0, src |-> args.reapack_file,
                                 dst |-> MetapackageName])]
    /\ pc' = "parse"
    /\ UNCHANGED <<args, local, result>>

\* Lines 131-132: the descriptor is parsed.
SyncParse ==
    /\ pc = "parse"
    /\ LET parsed == ParseProvides(fs.repo[args.reapack_file].text)
       IN  IF parsed.raised # "none"
           THEN pc' = "done" /\ result' = parsed /\ UNCHANGED local
           ELSE /\ pc' = "entries"
                /\ local' = [entries |-> parsed.value, k |-> 1, copied |-> <<>>]
                /\ UNCHANGED result
    /\ UNCHANGED <<args, fs, history>>

\* Lines 134-155: one iteration of the loop over the entries.
SyncEntry ==
    /\ pc = "entries"
    /\ local.k <= Len(local.entries)
    /\ LET entry == local.entries[local.k]
       IN  IF SkipEntry(entry)
           THEN /\ local' = [local EXCEPT !.k = @ + 1]
                /\ UNCHANGED <<pc, fs, result, history>>
           ELSE IF entry.source \notin DOMAIN fs.repo
           THEN /\ pc' = "done"
                /\ result' = Raised(ProvidesFileMissing)
                /\ UNCHANGED <<fs, local, history>>
           ELSE /\ fs' = [fs EXCEPT !.fx = Dir(CopyFile(fs, entry.source, DstRel(entry)))]
                /\ history' = [history EXCEPT !.copy_calls =
                                  Append(@, [entry |-> local.k, src |-> entry.source,
                                             dst |-> DstRel(entry)])]
                /\ local' = [local EXCEPT !.k = @ + 1,
                                          !.copied = Append(@, DstRel(entry))]
                /\ UNCHANGED <<pc, result>>
    /\ UNCHANGED args

\* Lines 157-163: reapack-index is run when asked for, and may fail; then the
\* counts are printed and 0 is returned.
SyncFinish ==
    /\ pc = "entries"
    /\ local.k > Len(local.entries)
    /\ \E index_ok \in BOOLEAN :
          result' = IF args.run_index /\ ~index_ok THEN Raised(CommandFailed)
                    ELSE Returned(0)
    /\ pc' = "done"
    /\ UNCHANGED <<args, fs, local, history>>

NextSync == SyncCheck \/ CopyMetapackage \/ SyncParse \/ SyncEntry \/ SyncFinish

SpecSync == InitSync /\ [][NextSync]_vars

\* The entries claim C7 says are never copied.
C7_Excluded(entry) ==
    \/ entry.has_url
    \/ entry.source = <<".">> \/ entry.target = <<".">>
    \/ ~StartsWith(entry.source, ShippedPrefix)

\* C7: no _copy_file call is made for an entry with a URL, with "." as source
\* or target, or with a source outside XY_Pad/; the missing-source error is
\* never raised at such an entry; and once the two existence checks are
\* passed, the first copy is the descriptor to FX/XY_Pad-ReaPack.lua.
C7_ExcludedEntriesNeverCopied ==
    /\ \A c \in 1..Len(history.copy_calls) :
          history.copy_calls[c].entry # 0 =>
              ~C7_Excluded(local.entries[history.copy_calls[c].entry])
    /\ Len(local.copied) = Cardinality({k \in 1..(local.k - 1) :
                                           ~C7_Excluded(local.entries[k])})
    /\ result = Raised(ProvidesFileMissing) =>
          ~C7_Excluded(local.entries[local.k])
    /\ (pc \notin {"sync", "copy_metapackage"}
        /\ result.raised \notin {ReaPackFileNotFound, FxDirNotFound}) =>
          /\ history.copy_calls # <<>>
          /\ history.copy_calls[1] = [entry |-> 0, src |-> args.reapack_file,
                                      dst |-> MetapackageName]
          /\ MetapackageName \in DOMAIN fs.fx.files

\* A run that returned 0 without copying anything for its entries, one of them
\* with a URL and a source that does not exist, from a descriptor that is not
\* named XY_Pad-ReaPack.lua.
C7_Witness ==
    /\ pc = "done"
    /\ result = Returned(0)
    /\ args.reapack_file # MetapackageName
    /\ ShippedSource \notin DOMAIN fs.repo
    /\ \E k \in 1..Len(local.entries) :
          local.entries[k].has_url /\ local.entries[k].source = ShippedSource
    /\ Len(history.copy_calls) = 1
    /\ fs.fx.files[MetapackageName] = fs.repo[args.reapack_file]

=============================================================================
